---- MODULE Spec2Model ----
(***************************************************************************)
(* A model of the Pagerank<T> graph of src/src/lib.rs: the node store, the *)
(* key index, the edge builder, the synchronous score sweep with its       *)
(* convergence metric, the convergence loop and the ranked view.           *)
(*                                                                         *)
(* f64 values are modelled as exact fractions <<n, d>> in lowest terms     *)
(* with d > 0, extended with the IEEE-754 specials +inf = <<1, 0>>,        *)
(* -inf = <<-1, 0>> and NaN = <<0, 0>>, so that x / 0.0 and 0.0 / 0.0 have *)
(* the values the hardware gives them.  Rounding is not modelled.          *)
(* Positions are 0-based as in the source; At(ns, p) reads ns[p + 1].      *)
(***************************************************************************)
EXTENDS Integers, Sequences, FiniteSets, TLC

\* ------------------------------------------------------------------ bounds
\* identifiers in use; calls of set_damping_factor, get_or_create_node and
\* add_edge plus steps of the solver in one behaviour
NumIds == 3
MaxCalls == 4

Ids == 1..NumIds
\* u8 arguments of set_damping_factor: below and at the limit of 100
Factors == {50, 100}

\* T is opaque (Eq + Hash + Clone): an identifier not yet in the index is
\* represented by the least one not in K
Unseen(K) == IF Ids \subseteq K THEN {} ELSE {CHOOSE i \in Ids \ K : \A j \in Ids \ K : i <= j}
\* f64 arguments of calculate_with_convergence
Thresholds == {<<1, 4>>}

\* ------------------------------------------------------------ f64 values
Abs(n) == IF n < 0 THEN -n ELSE n

RECURSIVE GCD(_, _)
GCD(a, b) == IF b = 0 THEN a ELSE GCD(b, a % b)

LCM(a, b) == (a \div GCD(a, b)) * b

NaN == <<0, 0>>
Inf == <<1, 0>>
NegInf == <<-1, 0>>
Zero == <<0, 1>>
One == <<1, 1>>

IsNaN(x) == x = NaN
IsFinite(x) == x[2] # 0
Sign(n) == IF n > 0 THEN 1 ELSE IF n < 0 THEN -1 ELSE 0

\* the fraction n / d (d # 0) in lowest terms
Rat(n, d) ==
    LET g == GCD(Abs(n), Abs(d))
        s == IF d < 0 THEN -1 ELSE 1
    IN  <<(s * n) \div g, (s * d) \div g>>

RNeg(x) == <<-x[1], x[2]>>

RAdd(x, y) ==
    IF IsNaN(x) \/ IsNaN(y) THEN NaN
    ELSE IF ~IsFinite(x) /\ ~IsFinite(y) THEN (IF x = y THEN x ELSE NaN)
    ELSE IF ~IsFinite(x) THEN x
    ELSE IF ~IsFinite(y) THEN y
    ELSE LET l == LCM(x[2], y[2])
         IN  Rat(x[1] * (l \div x[2]) + y[1] * (l \div y[2]), l)

RSub(x, y) == RAdd(x, RNeg(y))

RMul(x, y) ==
    IF IsNaN(x) \/ IsNaN(y) THEN NaN
    ELSE IF ~IsFinite(x) \/ ~IsFinite(y)
         THEN <<Sign(x[1]) * Sign(y[1]), 0>>
    ELSE LET g1 == GCD(Abs(x[1]), y[2])
             g2 == GCD(Abs(y[1]), x[2])
         IN  Rat((x[1] \div g1) * (y[1] \div g2), (x[2] \div g2) * (y[2] \div g1))

\* x / (k as f64) for an unsigned k; a zero k gives +-inf or NaN
RDivUsize(x, k) ==
    IF IsNaN(x) THEN NaN
    ELSE IF k = 0 THEN <<Sign(x[1]), 0>>
    ELSE IF ~IsFinite(x) THEN x
    ELSE RMul(x, <<1, k>>)

\* ------------------------------------------- unbounded naturals (base 10^4)
\* Sums of squares exceed the 32-bit integers of TLC; they are kept as
\* little-endian digit sequences without leading zeros.
Base == 100 * 100

RECURSIVE BigFromInt(_)
BigFromInt(n) == IF n = 0 THEN <<>> ELSE <<n % Base>> \o BigFromInt(n \div Base)

RECURSIVE BigAddC(_, _, _)
BigAddC(x, y, c) ==
    IF x = <<>> /\ y = <<>> THEN BigFromInt(c)
    ELSE LET a == IF x = <<>> THEN 0 ELSE Head(x)
             b == IF y = <<>> THEN 0 ELSE Head(y)
             s == a + b + c
         IN  <<s % Base>> \o BigAddC(IF x = <<>> THEN x ELSE Tail(x),
                                     IF y = <<>> THEN y ELSE Tail(y),
                                     s \div Base)

BigAdd(x, y) == BigAddC(x, y, 0)

RECURSIVE BigMulDigit(_, _, _)
BigMulDigit(x, k, c) ==
    IF k = 0 THEN <<>>
    ELSE IF x = <<>> THEN BigFromInt(c)
    ELSE LET s == Head(x) * k + c
         IN  <<s % Base>> \o BigMulDigit(Tail(x), k, s \div Base)

RECURSIVE BigMul(_, _)
BigMul(x, y) ==
    IF x = <<>> \/ y = <<>> THEN <<>>
    ELSE LET rest == BigMul(x, Tail(y))
         IN  BigAdd(BigMulDigit(x, Head(y), 0),
                    IF rest = <<>> THEN <<>> ELSE <<0>> \o rest)

BigSquare(n) == BigMul(BigFromInt(Abs(n)), BigFromInt(Abs(n)))

RECURSIVE BigLessFrom(_, _, _)
BigLessFrom(x, y, i) ==
    IF i = 0 THEN FALSE
    ELSE IF x[i] # y[i] THEN x[i] < y[i]
    ELSE BigLessFrom(x, y, i - 1)

BigLess(x, y) ==
    IF Len(x) # Len(y) THEN Len(x) < Len(y) ELSE BigLessFrom(x, y, Len(x))

\* the f64 comparison x < y, false when either side is a NaN; finite values
\* are compared by cross-multiplication
RLess(x, y) ==
    IF IsNaN(x) \/ IsNaN(y) THEN FALSE
    ELSE IF ~IsFinite(x) \/ ~IsFinite(y)
         THEN (IF IsFinite(x) THEN y = Inf
               ELSE IF IsFinite(y) THEN x = NegInf
               ELSE x = NegInf /\ y = Inf)
    ELSE IF Sign(x[1]) # Sign(y[1]) THEN Sign(x[1]) < Sign(y[1])
    ELSE LET l == BigMul(BigFromInt(Abs(x[1])), BigFromInt(y[2]))
             r == BigMul(BigFromInt(Abs(y[1])), BigFromInt(x[2]))
         IN  IF x[1] > 0 THEN BigLess(l, r) ELSE BigLess(r, l)

\* ------------------------------------------------------------------ state
VARIABLES
    damping,              \* Pagerank.damping
    nodes,                \* Pagerank.nodes: GraphNode records in creation order
    edges,                \* Pagerank.edges
    node_positions,       \* Pagerank.node_positions: identifier -> position
    nodes_with_incoming,  \* Pagerank.nodes_with_incoming: None or Some(n)
    loop,                 \* the activation of calculate_with_convergence, if any
    last,                 \* the most recent call and what it returned
    hist                  \* history: calls made so far

vars == <<damping, nodes, edges, node_positions, nodes_with_incoming,
          loop, last, hist>>

graph == <<damping, nodes, edges, node_positions, nodes_with_incoming>>

None == <<>>
Some(n) == <<n>>

At(ns, p) == ns[p + 1]

Idle == [active |-> FALSE]

Init ==
    /\ damping = Rat(85, 100)
    /\ nodes = <<>>
    /\ edges = 0
    /\ node_positions = <<>>
    /\ nodes_with_incoming = None
    /\ loop = Idle
    /\ last = [op |-> "new"]
    /\ hist = [calls |-> 0, add_edge |-> 0, idents |-> {}, steps |-> 0]

\* ---------------------------------------------------------- configuration
\* factor as f64 / 100_f64
DampingOf(factor) == Rat(factor, 100)

\* set_damping_factor refusing only factors above 100
SetDampingFactorAbove100(factor) ==
    /\ ~loop.active
    /\ hist.calls < MaxCalls
    /\ IF factor > 100
       THEN /\ last' = [op |-> "set_damping_factor", factor |-> factor, ok |-> FALSE]
            /\ UNCHANGED damping
       ELSE /\ damping' = DampingOf(factor)
            /\ last' = [op |-> "set_damping_factor", factor |-> factor, ok |-> TRUE]
    /\ hist' = [hist EXCEPT !.calls = @ + 1]
    /\ UNCHANGED <<nodes, edges, node_positions, nodes_with_incoming, loop>>

SetDampingFactor(factor) ==
    /\ ~loop.active
    /\ hist.calls < MaxCalls
    /\ IF factor >= 100
       THEN /\ last' = [op |-> "set_damping_factor", factor |-> factor, ok |-> FALSE]
            /\ UNCHANGED damping
       ELSE /\ damping' = DampingOf(factor)
            /\ last' = [op |-> "set_damping_factor", factor |-> factor, ok |-> TRUE]
    /\ hist' = [hist EXCEPT !.calls = @ + 1]
    /\ UNCHANGED <<nodes, edges, node_positions, nodes_with_incoming, loop>>

\* ------------------------------------------------------- key index / store
\* get_or_create_node without the lookup: a record is pushed on every call
GetOrCreateWithoutLookup(ns, np, nwi, d, node) ==
    LET id == Len(ns)
    IN  [nodes |-> Append(ns, [node |-> node,
                               incoming_edges |-> <<>>,
                               outgoing_edges |-> 0,
                               score |-> RSub(One, d)]),
         node_positions |-> [k \in DOMAIN np \cup {node} |->
                                IF k = node THEN id ELSE np[k]],
         nodes_with_incoming |-> None,
         id |-> id]

\* get_or_create_node giving a new node the score of the current damping
\* instead of 1 - damping
GetOrCreateScoredByDamping(ns, np, nwi, d, node) ==
    IF node \in DOMAIN np
    THEN [nodes |-> ns, node_positions |-> np, nodes_with_incoming |-> nwi,
          id |-> np[node]]
    ELSE [nodes |-> Append(ns, [node |-> node,
                                incoming_edges |-> <<>>,
                                outgoing_edges |-> 0,
                                score |-> d]),
          node_positions |-> [k \in DOMAIN np \cup {node} |->
                                 IF k = node THEN Len(ns) ELSE np[k]],
          nodes_with_incoming |-> None,
          id |-> Len(ns)]

\* The graph <<nodes, node_positions, nodes_with_incoming>> after
\* get_or_create_node(node) under damping d, and the position returned.
GetOrCreate(ns, np, nwi, d, node) ==
    IF node \in DOMAIN np
    THEN [nodes |-> ns, node_positions |-> np, nodes_with_incoming |-> nwi,
          id |-> np[node]]
    ELSE LET id == Len(ns)
         IN  [nodes |-> Append(ns, [node |-> node,
                                    incoming_edges |-> <<>>,
                                    outgoing_edges |-> 0,
                                    score |-> RSub(One, d)]),
              node_positions |-> [k \in DOMAIN np \cup {node} |->
                                     IF k = node THEN id ELSE np[k]],
              nodes_with_incoming |-> None,
              id |-> id]

GetOrCreateNode(node) ==
    /\ ~loop.active
    /\ hist.calls < MaxCalls
    /\ LET r == GetOrCreate(nodes, node_positions, nodes_with_incoming, damping, node)
       IN  /\ nodes' = r.nodes
           /\ node_positions' = r.node_positions
           /\ nodes_with_incoming' = r.nodes_with_incoming
           /\ last' = [op |-> "get_or_create_node"]
    /\ hist' = [hist EXCEPT !.calls = @ + 1, !.idents = @ \cup {node}]
    /\ UNCHANGED <<damping, edges, loop>>

\* ------------------------------------------------------------ edge builder
\* add_edge without the increment of the source's outgoing count
LinkWithoutOutgoing(ns, source, target) ==
    [ns EXCEPT ![target + 1].incoming_edges = Append(@, source)]

\* add_edge that keeps one incoming entry per source
LinkDeduplicated(ns, source, target) ==
    LET ns1 == [ns EXCEPT ![source + 1].outgoing_edges = @ + 1]
    IN  IF \E k \in 1..Len(ns[target + 1].incoming_edges) :
               ns[target + 1].incoming_edges[k] = source
        THEN ns1
        ELSE [ns1 EXCEPT ![target + 1].incoming_edges = Append(@, source)]

\* self.nodes[source].outgoing_edges += 1; self.nodes[target].incoming_edges.push(source)
Link(ns, source, target) ==
    LET ns1 == [ns EXCEPT ![source + 1].outgoing_edges = @ + 1]
    IN  [ns1 EXCEPT ![target + 1].incoming_edges = Append(@, source)]

AddEdge(source, target) ==
    /\ ~loop.active
    /\ hist.calls < MaxCalls
    /\ LET s == GetOrCreate(nodes, node_positions, nodes_with_incoming, damping, source)
           t == GetOrCreate(s.nodes, s.node_positions, s.nodes_with_incoming,
                            damping, target)
       IN  /\ nodes' = Link(t.nodes, s.id, t.id)
           /\ node_positions' = t.node_positions
           /\ nodes_with_incoming' = t.nodes_with_incoming
    /\ edges' = edges + 1
    /\ last' = [op |-> "add_edge", source |-> source, target |-> target]
    /\ hist' = [hist EXCEPT !.calls = @ + 1, !.add_edge = @ + 1, !.idents = @ \cup {source, target}]
    /\ UNCHANGED <<damping, loop>>

\* ----------------------------------------------------------------- queries
len == Len(nodes)
len_node == edges
is_empty == nodes = <<>>
get_score(node) ==
    IF node \in DOMAIN node_positions
    THEN Some(At(nodes, node_positions[node]).score) ELSE None
get_incoming_edges(node) ==
    IF node \in DOMAIN node_positions
    THEN Some(Len(At(nodes, node_positions[node]).incoming_edges)) ELSE None
get_outgoing_edges(node) ==
    IF node \in DOMAIN node_positions
    THEN Some(At(nodes, node_positions[node]).outgoing_edges) ELSE None

\* ------------------------------------------------------------------ solver
\* len_nodes_with_incoming_edges on <<ns, nwi>>: the value returned and the
\* cache it leaves
LenNodesWithIncoming(ns, nwi) ==
    IF nwi # None
    THEN [ret |-> nwi[1], cache |-> nwi]
    ELSE LET total == Cardinality({i \in 1..Len(ns) : Len(ns[i].incoming_edges) > 0})
         IN  [ret |-> total, cache |-> Some(total)]

\* n.incoming_edges.iter().map(|node| nodes[*node].score /
\* nodes[*node].outgoing_edges as f64).sum(), folded from acc
RECURSIVE SumIncoming(_, _, _)
SumIncoming(acc, ns, inc) ==
    IF inc = <<>> THEN acc
    ELSE SumIncoming(RAdd(acc, RDivUsize(At(ns, Head(inc)).score,
                                         At(ns, Head(inc)).outgoing_edges)),
                     ns, Tail(inc))

\* (1f64 - self.damping) + (self.damping * score)
NewScore(ns, d, inc) == RAdd(RSub(One, d), RMul(d, SumIncoming(Zero, ns, inc)))

\* the sweep done in place: a node reads the scores its predecessors in
\* the collection were given in this same sweep
RECURSIVE SweepInPlaceFrom(_, _, _)
SweepInPlaceFrom(ns, d, i) ==
    IF i > Len(ns) THEN ns
    ELSE SweepInPlaceFrom(
             [ns EXCEPT ![i].score = NewScore(ns, d, ns[i].incoming_edges)], d, i + 1)

SweepInPlace(ns, d) == SweepInPlaceFrom(ns, d, 1)

\* current_iter once the first pass is over: every score is computed from
\* ns, the collection as it was when the step began
Sweep(ns, d) ==
    [i \in 1..Len(ns) |-> [ns[i] EXCEPT !.score = NewScore(ns, d, ns[i].incoming_edges)]]

RECURSIVE LCMOfDens(_, _)
LCMOfDens(ds, i) == IF i = 0 THEN 1 ELSE LCM(ds[i][2], LCMOfDens(ds, i - 1))

RECURSIVE BigSumSquares(_, _, _)
BigSumSquares(ds, den, i) ==
    IF i = 0 THEN <<>>
    ELSE BigAdd(BigSumSquares(ds, den, i - 1),
                BigSquare(ds[i][1] * (den \div ds[i][2])))

\* the sum over all nodes of diff * diff with diff = n.score - current_iter[id].score,
\* as the f64 special it is or as the exact value sq / den^2
SumSquaredDiffs(old, cur) ==
    LET ds == [i \in 1..Len(old) |-> RSub(old[i].score, cur[i].score)]
    IN  IF \E i \in 1..Len(ds) : IsNaN(ds[i]) THEN [kind |-> "nan"]
        ELSE IF \E i \in 1..Len(ds) : ~IsFinite(ds[i]) THEN [kind |-> "inf"]
        ELSE LET den == LCMOfDens(ds, Len(ds))
             IN  [kind |-> "fin", sq |-> BigSumSquares(ds, den, Len(ds)), den |-> den]

\* convergence.sqrt() / (n as f64): NaN, +inf or the exact value sqrt(sq) / den
Metric(c, n) ==
    IF c.kind # "fin" THEN c
    ELSE IF n = 0 THEN (IF c.sq = <<>> THEN [kind |-> "nan"] ELSE [kind |-> "inf"])
    ELSE IF c.sq = <<>> THEN [kind |-> "fin", sq |-> <<>>, den |-> 1]
    ELSE [kind |-> "fin", sq |-> c.sq, den |-> c.den * n]

\* the f64 comparison m < t for a finite threshold t
MetricLess(m, t) ==
    /\ m.kind = "fin"
    /\ t[1] > 0
    /\ BigLess(BigMul(m.sq, BigSquare(t[2])), BigSquare(t[1] * m.den))

\* the f64 comparison m >= 0.0
MetricGeZero(m) == m.kind # "nan"

\* calculate_step on <<ns, nwi>> under damping d
StepResult(ns, d, nwi) ==
    LET cur == Sweep(ns, d)
        c == SumSquaredDiffs(ns, cur)
        l == LenNodesWithIncoming(cur, nwi)
    IN  [nodes |-> cur, nodes_with_incoming |-> l.cache,
         denominator |-> l.ret, metric |-> Metric(c, l.ret)]

CalculateStep ==
    /\ ~loop.active
    /\ hist.calls < MaxCalls
    /\ LET r == StepResult(nodes, damping, nodes_with_incoming)
       IN  /\ nodes' = r.nodes
           /\ nodes_with_incoming' = r.nodes_with_incoming
           /\ last' = [op |-> "calculate_step", metric |-> r.metric,
                       denominator |-> r.denominator]
    /\ hist' = [hist EXCEPT !.calls = @ + 1, !.steps = @ + 1]
    /\ UNCHANGED <<damping, edges, node_positions, loop>>

\* calculate_with_convergence: entry, with iterations = 0
Enter(convergence) ==
    /\ ~loop.active
    /\ loop' = [active |-> TRUE, convergence |-> convergence, iterations |-> 0,
                metrics |-> <<>>, entered_at |-> hist.steps]
    /\ last' = [op |-> "enter"]
    /\ UNCHANGED <<graph, hist>>

CalculateWithConvergence(convergence) == Enter(convergence)

Calculate == Enter(Rat(1, 100))

\* iterations += 1, in a pass that did not break
Continue(iterations) == iterations + 1

\* iterations counted before the test, so that the last step counts too
ReturnValueCountingLast(iterations) == iterations + 1

\* the value returned once the loop has been left
ReturnValue(iterations) == iterations

\* one pass of the loop of calculate_with_convergence
LoopPass ==
    /\ loop.active
    /\ hist.calls < MaxCalls
    /\ LET r == StepResult(nodes, damping, nodes_with_incoming)
           ms == Append(loop.metrics, r.metric)
       IN  /\ nodes' = r.nodes
           /\ nodes_with_incoming' = r.nodes_with_incoming
           /\ IF MetricLess(r.metric, loop.convergence)
              THEN /\ loop' = Idle
                   /\ last' = [op |-> "calculate_with_convergence",
                               convergence |-> loop.convergence,
                               ret |-> ReturnValue(loop.iterations), metrics |-> ms,
                               steps |-> hist.steps + 1 - loop.entered_at,
                               metric |-> r.metric, denominator |-> r.denominator]
              ELSE /\ loop' = [loop EXCEPT !.iterations = Continue(@), !.metrics = ms]
                   /\ last' = [op |-> "calculate_step", metric |-> r.metric,
                               denominator |-> r.denominator]
    /\ hist' = [hist EXCEPT !.calls = @ + 1, !.steps = @ + 1]
    /\ UNCHANGED <<damping, edges, node_positions>>

\* ------------------------------------------------------------- ranked view
\* x goes before the first element whose score is below its own: the stable
\* order of sort_by(|a, b| b.1.partial_cmp(&a.1).unwrap())
RECURSIVE InsertSorted(_, _)
InsertSorted(sorted, x) ==
    IF sorted = <<>> THEN <<x>>
    ELSE IF RLess(Head(sorted)[2], x[2]) THEN <<x>> \o sorted
    ELSE <<Head(sorted)>> \o InsertSorted(Tail(sorted), x)

RECURSIVE SortByScore(_, _)
SortByScore(pairs, i) ==
    IF i = 0 THEN <<>> ELSE InsertSorted(SortByScore(pairs, i - 1), pairs[i])

\* the view sorted by a sort that does not keep equal scores in place
RankedNodesReversingTies(ns) ==
    LET pairs == [i \in 1..Len(ns) |-> <<ns[Len(ns) + 1 - i].node, ns[Len(ns) + 1 - i].score>>]
    IN  [panic |-> FALSE, pairs |-> SortByScore(pairs, Len(pairs))]

\* nodes(): the pairs (&node.node, node.score), sorted; partial_cmp gives
\* None on a NaN and unwrap panics
RankedNodes(ns) ==
    LET pairs == [i \in 1..Len(ns) |-> <<ns[i].node, ns[i].score>>]
    IN  IF Len(ns) >= 2 /\ \E i \in 1..Len(ns) : IsNaN(ns[i].score)
        THEN [panic |-> TRUE, pairs |-> <<>>]
        ELSE [panic |-> FALSE, pairs |-> SortByScore(pairs, Len(pairs))]

Nodes ==
    /\ ~loop.active
    /\ last' = [op |-> "nodes", ret |-> RankedNodes(nodes)]
    /\ UNCHANGED <<graph, loop, hist>>

Known == DOMAIN node_positions

Next ==
    \/ \E factor \in Factors : SetDampingFactor(factor)
    \/ \E node \in Known \cup Unseen(Known) : GetOrCreateNode(node)
    \/ \E source \in Known \cup Unseen(Known) :
           \E target \in Known \cup {source} \cup Unseen(Known \cup {source}) :
               AddEdge(source, target)
    \/ CalculateStep
    \/ \E convergence \in Thresholds : CalculateWithConvergence(convergence)
    \/ Calculate
    \/ LoopPass
    \/ Nodes

Spec == Init /\ [][Next]_vars

\* ------------------------------------------------------------------ claims
StepOps == {"calculate_step", "calculate_with_convergence"}

Positions(ns) == 0..(Len(ns) - 1)

RECURSIVE SumOver(_, _)
SumOver(f, i) == IF i = 0 THEN 0 ELSE f[i] + SumOver(f, i - 1)

\* the number of entries of the sequence inc that equal p
Multiplicity(inc, p) == Cardinality({k \in 1..Len(inc) : inc[k] = p})

WithIncoming(ns) == {i \in 1..Len(ns) : Len(ns[i].incoming_edges) > 0}

\* C1: the node count equals the number of distinct identifiers that were
\* given to add_edge as a source or a target (or to get_or_create_node), so
\* a pair of equal fresh endpoints creates one node.
NodeCountIsDistinctIdentifiers == len = Cardinality(hist.idents)

\* C1 witness: add_edge(x, x) on a new graph has run
SelfLoopOnFreshGraph ==
    /\ last.op = "add_edge"
    /\ last.source = last.target
    /\ hist.add_edge = 1
    /\ len = 1

\* C2 (as stated): whenever a step has run, the denominator it divided by is
\* the number of nodes that have an incoming edge.
DenominatorIsCurrentCount ==
    last.op \in StepOps => last.denominator = Cardinality(WithIncoming(nodes))

\* C3 (as stated): whenever a step has run, its metric is >= 0 and the
\* denominator it divided by is not zero.
MetricIsNonNegative ==
    last.op \in StepOps => MetricGeZero(last.metric) /\ last.denominator # 0

\* C4: calculate_with_convergence returns right after the first step whose
\* metric is below the threshold; it returns the number of earlier steps,
\* none of which was below the threshold, having made that number plus one
\* steps.
ReturnsAtFirstStepBelowThreshold ==
    last.op = "calculate_with_convergence" =>
        LET ms == last.metrics
        IN  /\ ~loop.active
            /\ Len(ms) >= 1
            /\ MetricLess(ms[Len(ms)], last.convergence)
            /\ \A i \in 1..(Len(ms) - 1) : ~MetricLess(ms[i], last.convergence)
            /\ last.ret = Len(ms) - 1
            /\ last.steps = last.ret + 1

\* C4 witness: a run returned 1, its first step having missed the threshold
ReturnedAfterSecondStep ==
    /\ last.op = "calculate_with_convergence"
    /\ last.ret = 1
    /\ Len(last.metrics) = 2

\* C5: set_damping_factor with a factor >= 100 fails and leaves the graph as
\* it was; with a factor < 100 it succeeds, makes damping factor / 100 and
\* changes nothing else.
SetDampingValidates ==
    [][last'.op = "set_damping_factor" =>
         IF last'.factor >= 100
         THEN ~last'.ok /\ graph' = graph
         ELSE /\ last'.ok
              /\ damping'[1] * 100 = last'.factor * damping'[2]
              /\ <<nodes, edges, node_positions, nodes_with_incoming>>'
                     = <<nodes, edges, node_positions, nodes_with_incoming>>]_vars

\* C5 witness: a factor of 100 was refused on a graph that has nodes and a
\* damping that an earlier call had set
RefusedOnPopulatedGraph ==
    /\ last.op = "set_damping_factor"
    /\ ~last.ok
    /\ len > 0
    /\ damping = <<1, 2>>

\* C6: a node is created with the score 1 - damping; the score of a node
\* that exists changes only in a step, never in set_damping_factor.
ScoreSetAtCreationOnly ==
    [][/\ Len(nodes') >= Len(nodes)
       /\ \A i \in 1..Len(nodes) :
              nodes'[i].score # nodes[i].score => last'.op \in StepOps
       /\ \A i \in (Len(nodes) + 1)..Len(nodes') :
              /\ nodes'[i].score[2] > 0
              /\ nodes'[i].score[1] * damping[2]
                     = (damping[2] - damping[1]) * nodes'[i].score[2]
       /\ last'.op = "set_damping_factor" => nodes' = nodes]_vars

\* C6 witness: the damping was changed after a node had been created at
\* the default, and the node kept its score
DampingChangedAfterCreation ==
    /\ last.op = "set_damping_factor"
    /\ last.ok
    /\ len > 0
    /\ \E node \in Known : get_score(node) = Some(<<3, 20>>)
    /\ damping = <<1, 2>>

\* r is the ranked view of the nodes ns indexed by np
IsRankedView(r, ns, np) ==
    /\ ~r.panic
    /\ Len(r.pairs) = Len(ns)
    /\ \A i \in 1..Len(ns) :
           Cardinality({j \in 1..Len(r.pairs) :
                            r.pairs[j] = <<ns[i].node, ns[i].score>>}) = 1
    /\ \A j, k \in 1..Len(r.pairs) :
           j < k => /\ ~RLess(r.pairs[j][2], r.pairs[k][2])
                    /\ r.pairs[j][2] = r.pairs[k][2]
                           => np[r.pairs[j][1]] < np[r.pairs[k][1]]

\* C7: nodes() returns every node once with its current score, scores never
\* increasing along the result, equal scores in creation order, and it
\* leaves the graph as it was.
RankedViewIsStableDescending ==
    [][last'.op = "nodes" =>
           graph' = graph /\ IsRankedView(last'.ret, nodes, node_positions)]_vars

\* C7 witness: the view was taken after a step that left two nodes tied
RankedTiedNodes ==
    /\ last.op = "nodes"
    /\ hist.steps >= 1
    /\ Len(last.ret.pairs) = 2
    /\ last.ret.pairs[1][2] = last.ret.pairs[2][2]

\* C8: every entry of an incoming list is the position of a node whose
\* outgoing count is at least 1.
IncomingSourcesHaveOutgoing ==
    \A i \in 1..Len(nodes) :
        \A k \in 1..Len(nodes[i].incoming_edges) :
            LET p == nodes[i].incoming_edges[k]
            IN  p \in Positions(nodes) /\ At(nodes, p).outgoing_edges >= 1

\* C8 witness: a step has divided by the outgoing counts of a graph with edges
SteppedWithEdges == last.op \in StepOps /\ edges >= 1

\* the score of node i after a step on ns, summed position by position
ExpectedScore(ns, d, i) ==
    LET term[p \in 0..Len(ns)] ==
            IF p = 0 THEN Zero
            ELSE IF Multiplicity(ns[i].incoming_edges, p - 1) = 0 THEN term[p - 1]
            ELSE RAdd(term[p - 1],
                      RMul(<<Multiplicity(ns[i].incoming_edges, p - 1), 1>>,
                           RDivUsize(ns[p].score, ns[p].outgoing_edges)))
    IN  RAdd(RSub(One, d), RMul(d, term[Len(ns)]))

\* C9: a step gives every node the score (1 - damping) + damping * the sum,
\* over the positions p, of (how often p is in the node's incoming list) *
\* (score of p before the step) / (outgoing count of p); it changes nothing
\* but scores and the cached count.
StepIsSynchronous ==
    [][last'.op \in StepOps =>
         /\ Len(nodes') = Len(nodes)
         /\ \A i \in 1..Len(nodes) :
                /\ nodes'[i].score = ExpectedScore(nodes, damping, i)
                /\ nodes'[i].node = nodes[i].node
                /\ nodes'[i].incoming_edges = nodes[i].incoming_edges
                /\ nodes'[i].outgoing_edges = nodes[i].outgoing_edges
         /\ <<damping, edges, node_positions>>' = <<damping, edges, node_positions>>]_vars

\* C9 witness: a step has run on a two-node cycle, where the later node
\* reads the score of the earlier one
SteppedOnCycle ==
    /\ last.op = "calculate_step"
    /\ len = 2
    /\ At(nodes, 0).incoming_edges = <<1>>
    /\ At(nodes, 1).incoming_edges = <<0>>

\* adjacency of the node at index i, empty for a node not yet created
Outgoing(ns, i) == IF i \in 1..Len(ns) THEN ns[i].outgoing_edges ELSE 0
Incoming(ns, i) == IF i \in 1..Len(ns) THEN ns[i].incoming_edges ELSE <<>>

EdgeCountsAgree ==
    /\ len_node = hist.add_edge
    /\ edges = SumOver([i \in 1..Len(nodes) |-> nodes[i].outgoing_edges], Len(nodes))
    /\ edges = SumOver([i \in 1..Len(nodes) |-> Len(nodes[i].incoming_edges)], Len(nodes))

AddEdgeTouchesOneEdge ==
    last'.op = "add_edge" =>
        LET s == node_positions'[last'.source] + 1
            t == node_positions'[last'.target] + 1
        IN  /\ edges' = edges + 1
            /\ \A i \in 1..Len(nodes') :
                   /\ Outgoing(nodes', i)
                          = Outgoing(nodes, i) + (IF i = s THEN 1 ELSE 0)
                   /\ Incoming(nodes', i)
                          = (IF i = t THEN Append(Incoming(nodes, i), s - 1)
                             ELSE Incoming(nodes, i))

\* C10: the edge count is the number of add_edge calls, the sum of the
\* outgoing counts and the sum of the lengths of the incoming lists; one
\* add_edge(s, t) adds 1 to the outgoing count of s and the position of s
\* to the end of the incoming list of t, and leaves the rest of the
\* adjacency alone.
EdgesAreCountedOnce == []EdgeCountsAgree /\ [][AddEdgeTouchesOneEdge]_vars

\* C10 witness: the same edge was added twice
DuplicateEdgeAdded ==
    /\ last.op = "add_edge"
    /\ edges = 2
    /\ \E i \in 1..Len(nodes) : Len(nodes[i].incoming_edges) = 2
                                 /\ nodes[i].incoming_edges[1] = nodes[i].incoming_edges[2]
====
